---- MODULE Spec2Model ----
(***************************************************************************)
(* SumStack (SumGame): a grid of numbered blocks; the player selects       *)
(* blocks whose values add up to a target.  This module models the state   *)
(* held by the App component (src/src/App.tsx) and the grid helpers of     *)
(* src/src/utils/gameLogic.ts.                                             *)
(*                                                                         *)
(* gameState is the React state the updaters receive as `prev`.  The       *)
(* guards of handleBlockClick and of the timer effect read the gameState   *)
(* of the last committed render instead; of that render the model keeps    *)
(* the one field those guards read, renderedGameOver.  An update made in   *)
(* a click handler is rendered before the next event is dispatched; an     *)
(* update made in the setInterval callback is rendered later (Render).     *)
(***************************************************************************)
EXTENDS Integers, Sequences, FiniteSets

\* ---------------------------------------------------------------- constants

GRID_ROWS == 10
GRID_COLS == 6
INITIAL_ROWS == 4
MAX_VALUE == 9
MIN_VALUE == 1

\* timeLeft is held in tenths of a second: one tick takes TICK (0.1 s) off it.
TENTHS == 10
TICK == 1
\* initGame's timeLeft / maxTime (seconds), and the floor of the reset value.
INIT_TIME == 10
MIN_TIME == 5
\* getTargetSum's base and cap of the variance.
TARGET_BASE == 10
MAX_VARIANCE == 10
\* a level lasts LEVEL_SCORE points.
LEVEL_SCORE == 1000

\* ------------------------------------------------------------------- bounds

\* The player clicks blocks of the leftmost ClickCols columns of the bottom row.
ClickCols == 3
\* No exact match is played once the score has reached the cap of the game's mode.
MaxClassicScore == 120
MaxTimeScore == 20
\* A new game is started only while the saved high score is at most MaxSavedAtStart.
MaxSavedAtStart == 40
\* The long classic game: the player clicks any block of the bottom row, and plays
\* no exact match once the score has reached MaxLongScore.
MaxLongScore == 1300

Rows == 0 .. (GRID_ROWS - 1)
Cols == 0 .. (GRID_COLS - 1)

Min(a, b) == IF a < b THEN a ELSE b
Max(a, b) == IF a > b THEN a ELSE b

\* timeLeft and maxTime of a classic game (undefined): a value no countdown takes.
Undefined == 0 - (INIT_TIME * INIT_TIME * TENTHS)

\* ------------------------------------------------------------------- blocks

\* An empty cell (null).
Null == [id |-> 0, value |-> 0, row |-> 0 - 1, col |-> 0 - 1]

GridIds(grid) == {grid[r][c].id : r \in Rows, c \in Cols} \ {Null.id}

SeqRange(s) == {s[i] : i \in 1 .. Len(s)}

\* generateId, called n times.  The code draws each id from Math.random() and looks
\* at no grid; the model gives the least n ids from `from` on that are not in `used`.
\* With used = the ids of the grid the draws are fresh (which fresh ids they are is
\* immaterial, an id being opaque); with an id of the grid left out of used, a draw
\* repeats that id.
RECURSIVE generateId(_, _, _)
generateId(used, from, n) ==
    IF n = 0 THEN << >>
    ELSE IF from \in used THEN generateId(used, from + 1, n)
    ELSE <<from>> \o generateId(used, from + 1, n - 1)

createBlock(row, col, value, id) == [id |-> id, value |-> value, row |-> row, col |-> col]

createEmptyGrid == [r \in Rows |-> [c \in Cols |-> Null]]

\* The values Math.random() gives the blocks of a generated row, in this model:
\* 4 + 6 meets the target 10, 1 + 4 stays below it, 1 + 4 + 6 exceeds it.
RowValues == { <<1, 4, 6, 8, 5, 1>> }
\* ... and in the long classic game: a row that adds up to the first target.
LongRowValues == { <<1, 1, 1, 2, 2, 3>> }

\* generateRow(rowIndex) with the values vals, ids not in used.
generateRow(rowIndex, vals, used) ==
    LET ids == generateId(used, 1, GRID_COLS)
    IN  [c \in Cols |-> createBlock(rowIndex, c, vals[c + 1], ids[c + 1])]

\* getTargetSum(level): the values 10 + floor(random * min(level, 10)) can take.
getTargetSum(level) ==
    {TARGET_BASE + v : v \in 0 .. (Min(level, MAX_VARIANCE) - 1)}

checkGameOver(grid) == \E c \in Cols : grid[0][c] # Null

\* A gravity that leaves the row field of a block as it was.
applyGravityKeepsRow(grid) ==
    [r \in Rows |-> [c \in Cols |->
        LET kept == {q \in Rows : grid[q][c] # Null}
        IN  IF Cardinality(kept) >= GRID_ROWS - r
            THEN LET src == CHOOSE q \in kept :
                               Cardinality({x \in kept : x > q}) = GRID_ROWS - 1 - r
                 IN  grid[src][c]
            ELSE Null]]

\* A gravity that lets every block fall one row only, if the cell below it is empty.
applyGravityOneRow(grid) ==
    [r \in Rows |-> [c \in Cols |->
        IF grid[r][c] # Null /\ (r = GRID_ROWS - 1 \/ grid[r + 1][c] # Null)
        THEN grid[r][c]
        ELSE IF r > 0 /\ grid[r][c] = Null /\ grid[r - 1][c] # Null
             THEN [grid[r - 1][c] EXCEPT !.row = r, !.col = c]
             ELSE Null]]

\* The blocks of column col in rows row, row - 1, .. 0, bottom first.
RECURSIVE ColumnFrom(_, _, _)
ColumnFrom(grid, col, row) ==
    IF row < 0 THEN << >>
    ELSE IF grid[row][col] # Null
         THEN <<grid[row][col]>> \o ColumnFrom(grid, col, row - 1)
         ELSE ColumnFrom(grid, col, row - 1)

applyGravity(grid) ==
    [r \in Rows |-> [c \in Cols |->
        LET blocks == ColumnFrom(grid, c, GRID_ROWS - 1)
            k == GRID_ROWS - r
        IN  IF k <= Len(blocks)
            THEN [blocks[k] EXCEPT !.row = r, !.col = c]
            ELSE Null]]

shiftUp(grid, vals, used) ==
    [r \in Rows |->
        IF r = GRID_ROWS - 1
        THEN generateRow(GRID_ROWS - 1, vals, used)
        ELSE [c \in Cols |->
                IF grid[r + 1][c] # Null
                THEN [grid[r + 1][c] EXCEPT !.row = r, !.col = c]
                ELSE Null]]

\* ---------------------------------------------------------------- the state

VARIABLES
    gameState,         \* useState<GameState | null>
    isPaused,          \* useState(false)
    renderedGameOver,  \* gameState.isGameOver as the last committed render saw it
    localStorage,      \* the item STORAGE_KEY: a string of digits, NoItem when absent
    last,              \* history: the handler that ran last, the branch it took, the block clicked
    run                \* history: the ticks and forced rows since initGame, while no block was clicked

vars == <<gameState, isPaused, renderedGameOver, localStorage, last, run>>

\* gameState = null: the mode-select screen.
NoGame ==
    [grid |-> createEmptyGrid, targetSum |-> 0, selectedIds |-> << >>, score |-> 0,
     highScore |-> 0, isGameOver |-> FALSE, mode |-> "none", level |-> 0, combo |-> 0,
     timeLeft |-> Undefined, maxTime |-> Undefined]

\* localStorage.getItem gives null.
NoItem == << >>

\* n.toString(): the decimal digits of n >= 0.
RECURSIVE ToString(_)
ToString(n) == IF n < 10 THEN <<n>> ELSE Append(ToString(n \div 10), n % 10)

\* parseInt(str) of a string of digits.
RECURSIVE ParseInt(_)
ParseInt(str) ==
    IF Len(str) = 1 THEN str[1]
    ELSE ParseInt(SubSeq(str, 1, Len(str) - 1)) * 10 + str[Len(str)]

\* savedHighScore ? parseInt(savedHighScore) : 0
SavedHighScore(item) == IF item # NoItem THEN ParseInt(item) ELSE 0

\* What localStorage may hold when the page loads.
SavedItems == {NoItem, ToString(20)}

\* Math.floor(newScore / 1000) + 1
LevelOf(score) == (score \div LEVEL_SCORE) + 1

\* A reset value without its floor of 5.
NextMaxTimeNoFloor(level) == (INIT_TIME - (level \div 2)) * TENTHS

\* Math.max(5, 10 - Math.floor(level / 2)), in tenths of a second
NextMaxTime(level) == Max(MIN_TIME, INIT_TIME - (level \div 2)) * TENTHS

\* prev.timeLeft <= 0.  timeLeft is a double counted down by 0.1 from maxTime: after
\* 10 * maxTime subtractions it is a small positive number (1.9e-14 from 10, 1.0e-15
\* from 5), not 0, and after one more it is about -0.1.  In tenths: it is <= 0 from
\* the nominal value -1 on, and never at the nominal value 0 (maxTime >= 5 > 0).
TimeLeftLeqZero(timeLeft) == timeLeft < 0

\* The first block carrying id, rows top to bottom, each row left to right.
FindBlock(grid, id) ==
    LET cells == {rc \in Rows \X Cols : grid[rc[1]][rc[2]].id = id}
    IN  IF cells = {} THEN Null
        ELSE LET first == CHOOSE rc \in cells :
                            \A o \in cells :
                                \/ rc[1] < o[1]
                                \/ (rc[1] = o[1] /\ rc[2] <= o[2])
             IN  grid[first[1]][first[2]]

\* newSelectedIds.map(find).filter(Boolean)
SelectedBlocks(grid, ids) ==
    LET found == [i \in 1 .. Len(ids) |-> FindBlock(grid, ids[i])]
        Kept(b) == b # Null
    IN  SelectSeq(found, Kept)

RECURSIVE SumValues(_)
SumValues(blocks) ==
    IF blocks = << >> THEN 0 ELSE Head(blocks).value + SumValues(Tail(blocks))

\* A toggle that forgets to look for the id: it always adds it.
ToggleAppends(selectedIds, id) == Append(selectedIds, id)

\* prev.selectedIds with id toggled
Toggle(selectedIds, id) ==
    IF id \in SeqRange(selectedIds)
    THEN LET Other(x) == x # id IN SelectSeq(selectedIds, Other)
    ELSE Append(selectedIds, id)

\* The history kept while no block is clicked, and after.
FreshRun == [ticks |-> 0, injections |-> 0]
NoRun == [ticks |-> 0 - 1, injections |-> 0 - 1]

\* ---------------------------------------------------------------- initGame

InitialGrid(rows) ==
    [r \in Rows |->
        IF r >= GRID_ROWS - INITIAL_ROWS
        THEN LET i == GRID_ROWS - 1 - r
             IN  generateRow(r, rows[i + 1], 1 .. (i * GRID_COLS))
        ELSE createEmptyGrid[r]]

\* What the player saw when the button was pressed.
Screen ==
    IF gameState = NoGame THEN "menu"
    ELSE IF renderedGameOver THEN "over"
    ELSE IF isPaused THEN "paused"
    ELSE "playing"

\* An initGame that leaves the pause flag as it is.
InitGameKeepsPause(mode, rows, target) ==
    /\ gameState' =
         [grid |-> InitialGrid(rows), targetSum |-> target, selectedIds |-> << >>,
          score |-> 0, highScore |-> SavedHighScore(localStorage), isGameOver |-> FALSE,
          mode |-> mode, level |-> 1, combo |-> 0,
          timeLeft |-> IF mode = "time" THEN INIT_TIME * TENTHS ELSE Undefined,
          maxTime |-> IF mode = "time" THEN INIT_TIME * TENTHS ELSE Undefined]
    /\ renderedGameOver' = FALSE
    /\ last' = [op |-> "initGame", branch |-> Screen, id |-> 0]
    /\ run' = FreshRun
    /\ UNCHANGED <<isPaused, localStorage>>

InitGame(mode, rows, target) ==
    /\ gameState' =
         [grid |-> InitialGrid(rows),
          targetSum |-> target,
          selectedIds |-> << >>,
          score |-> 0,
          highScore |-> SavedHighScore(localStorage),
          isGameOver |-> FALSE,
          mode |-> mode,
          level |-> 1,
          combo |-> 0,
          timeLeft |-> IF mode = "time" THEN INIT_TIME * TENTHS ELSE Undefined,
          maxTime |-> IF mode = "time" THEN INIT_TIME * TENTHS ELSE Undefined]
    /\ isPaused' = FALSE
    /\ renderedGameOver' = FALSE
    /\ last' = [op |-> "initGame", branch |-> Screen, id |-> 0]
    /\ run' = FreshRun
    /\ UNCHANGED localStorage

\* ------------------------------------------------------- handleBlockClick

\* The blocks the player clicks: those of the leftmost cols columns of the bottom
\* row; when inOrder, an unselected block only if it lies right of the selected ones.
Clickable(state, cols, inOrder) ==
    LET bottom == {state.grid[GRID_ROWS - 1][c] : c \in 0 .. (Min(cols, GRID_COLS) - 1)} \ {Null}
        selected == {b \in bottom : b.id \in SeqRange(state.selectedIds)}
    IN  IF inOrder
        THEN {b \in bottom : b \in selected \/ \A o \in selected : o.col < b.col}
        ELSE bottom

\* The values of timeLeft at which the player acts (clicks, pauses, restarts) in
\* time mode: right after a reset, and around the expiry.
InputTimes(maxTime) == {maxTime, 0, 0 - TICK}

PlayerActs ==
    gameState.mode = "time" => gameState.timeLeft \in InputTimes(gameState.maxTime)

\* An exceeded branch that clears the selection and keeps the combo.
ExceededKeepsCombo(prev) == [prev EXCEPT !.selectedIds = << >>]

\* FAILED - Exceeded sum
Exceeded(prev) == [prev EXCEPT !.selectedIds = << >>, !.combo = 0]

\* A below-target branch that also resets the combo.
BelowResetsCombo(prev, newSelectedIds) ==
    [prev EXCEPT !.selectedIds = newSelectedIds, !.combo = 0]

\* below the target: only the selection changes
Below(prev, newSelectedIds) == [prev EXCEPT !.selectedIds = newSelectedIds]

\* The grid after SUCCESS: the selected blocks removed, gravity applied.
gravityGrid(prev, newSelectedIds) ==
    applyGravity([r \in Rows |-> [c \in Cols |->
        IF prev.grid[r][c] # Null /\ prev.grid[r][c].id \in SeqRange(newSelectedIds)
        THEN Null
        ELSE prev.grid[r][c]]])

\* A success branch that adds a row in either mode.
finalGridShiftsInEitherMode(prev, newSelectedIds, vals) ==
    LET g == gravityGrid(prev, newSelectedIds)
        row == IF vals = << >> THEN [c \in 1 .. GRID_COLS |-> MIN_VALUE] ELSE vals
    IN  IF ~checkGameOver(g) THEN shiftUp(g, row, GridIds(g)) ELSE g

\* In classic mode a row is added after success, unless the grid is already over.
finalGrid(prev, newSelectedIds, vals) ==
    LET g == gravityGrid(prev, newSelectedIds)
    IN  IF prev.mode = "classic" /\ ~checkGameOver(g)
        THEN shiftUp(g, vals, GridIds(g))
        ELSE g

\* A game-over test that is not repeated after the row is added.
gameOverBeforeShiftOnly(prev, newSelectedIds, vals) ==
    prev.mode = "classic" /\ checkGameOver(gravityGrid(prev, newSelectedIds))

gameOverAfterMatch(prev, newSelectedIds, vals) ==
    /\ prev.mode = "classic"
    /\ \/ checkGameOver(gravityGrid(prev, newSelectedIds))
       \/ checkGameOver(finalGrid(prev, newSelectedIds, vals))

\* Points without the combo multiplier.
PointsNoCombo(prev, newSelectedIds) == prev.targetSum * Len(newSelectedIds)

Points(prev, newSelectedIds) == prev.targetSum * Len(newSelectedIds) * (prev.combo + 1)

\* A high score that a match never raises.
keptHighScore(prev, newScore) == prev.highScore

newHighScore(prev, newScore) == Max(newScore, prev.highScore)

\* A level rounded to the nearest thousand instead of floored.
roundedLevel(newScore) == ((newScore + (LEVEL_SCORE \div 2)) \div LEVEL_SCORE) + 1

newLevel(newScore) == LevelOf(newScore)

\* A target drawn for the level of the new score.
targetLevelOfNewScore(prev, newSelectedIds) ==
    newLevel(prev.score + Points(prev, newSelectedIds))

\* targetSum: getTargetSum(prev.level): the level the new target is drawn for
targetLevel(prev, newSelectedIds) == prev.level

\* SUCCESS: the state the updater returns
Success(prev, newSelectedIds, vals, target) ==
    LET newScore == prev.score + Points(prev, newSelectedIds)
    IN  [prev EXCEPT
            !.grid = finalGrid(prev, newSelectedIds, vals),
            !.selectedIds = << >>,
            !.targetSum = target,
            !.score = newScore,
            !.highScore = newHighScore(prev, newScore),
            !.isGameOver = gameOverAfterMatch(prev, newSelectedIds, vals),
            !.combo = prev.combo + 1,
            !.level = newLevel(newScore),
            !.timeLeft = IF prev.mode = "time" THEN NextMaxTime(prev.level) ELSE Undefined,
            !.maxTime = IF prev.mode = "time" THEN NextMaxTime(prev.level) ELSE Undefined]

\* if (newHighScore > prev.highScore) localStorage.setItem(STORAGE_KEY, newHighScore.toString())
StoredAfterMatch(prev, newSelectedIds, item) ==
    LET high == newHighScore(prev, prev.score + Points(prev, newSelectedIds))
    IN  IF high > prev.highScore THEN ToString(high) ELSE item

\* A guard that does not look at the pause flag.
ClickIgnoredNoPause == gameState = NoGame \/ renderedGameOver

\* if (!gameState || gameState.isGameOver || isPaused) return;
ClickIgnored == gameState = NoGame \/ renderedGameOver \/ isPaused

\* A branch test that takes a sum above the target for one below it.
ClickBranchNoExceeded(prev, newSelectedIds) ==
    IF SumValues(SelectedBlocks(prev.grid, newSelectedIds)) = prev.targetSum
    THEN "exact" ELSE "below"

ClickBranch(prev, newSelectedIds) ==
    LET currentSum == SumValues(SelectedBlocks(prev.grid, newSelectedIds))
    IN  IF currentSum = prev.targetSum THEN "exact"
        ELSE IF currentSum > prev.targetSum THEN "exceeded"
        ELSE "below"

\* The updater of handleBlockClick.
ClickUpdate(prev, id, vals, target) ==
    LET newSelectedIds == Toggle(prev.selectedIds, id)
        branch == ClickBranch(prev, newSelectedIds)
    IN  CASE branch = "exact" -> Success(prev, newSelectedIds, vals, target)
          [] branch = "exceeded" -> Exceeded(prev)
          [] OTHER -> Below(prev, newSelectedIds)

\* handleBlockClick(block), the render that follows it included.
HandleBlockClick(block, vals, target, cap) ==
    LET prev == gameState
        newSelectedIds == Toggle(prev.selectedIds, block.id)
        branch == ClickBranch(prev, newSelectedIds)
    IN  IF ClickIgnored
        THEN /\ last' = [op |-> "click", branch |-> "ignored", id |-> block.id]
             /\ UNCHANGED <<gameState, isPaused, renderedGameOver, localStorage>>
        ELSE /\ branch = "exact" => prev.score < cap
             /\ gameState' = ClickUpdate(prev, block.id, vals, target)
             /\ localStorage' =
                  IF branch = "exact" THEN StoredAfterMatch(prev, newSelectedIds, localStorage)
                  ELSE localStorage
             \* The click renders at once.  With an update of the timer still waiting,
             \* this render either takes it in or leaves it to the next one.
             /\ renderedGameOver' \in
                  (IF prev.isGameOver THEN {FALSE, gameState'.isGameOver}
                   ELSE {gameState'.isGameOver})
             /\ last' = [op |-> "click", branch |-> branch, id |-> block.id]
             /\ UNCHANGED isPaused

Click(cols, inOrder, rowValues, cap) ==
    /\ gameState # NoGame
    /\ PlayerActs
    /\ \E block \in Clickable(gameState, cols, inOrder) :
         LET branch == ClickBranch(gameState, Toggle(gameState.selectedIds, block.id))
             exact == ~ClickIgnored /\ branch = "exact"
         IN  \E vals \in (IF exact /\ gameState.mode = "classic"
                          THEN rowValues ELSE {<< >>}) :
             \E target \in (IF exact
                            THEN getTargetSum(targetLevel(gameState,
                                     Toggle(gameState.selectedIds, block.id)))
                            ELSE {gameState.targetSum}) :
                HandleBlockClick(block, vals, target, cap)
    /\ run' = NoRun

\* ------------------------------------------------------------- the timer

\* The effect keeps the interval running while this holds of the rendered state.
TimerRunning ==
    /\ gameState # NoGame
    /\ gameState.mode = "time"
    /\ ~renderedGameOver
    /\ ~isPaused

\* An expiry that adds a row without looking at row 0 first.
TickBranchNoCheck(prev) ==
    IF prev = NoGame \/ prev.timeLeft = Undefined THEN "none"
    ELSE IF TimeLeftLeqZero(prev.timeLeft) THEN "inject"
    ELSE "decay"

TickBranch(prev) ==
    IF prev = NoGame \/ prev.timeLeft = Undefined THEN "none"
    ELSE IF TimeLeftLeqZero(prev.timeLeft)
         THEN (IF checkGameOver(prev.grid) THEN "gameover" ELSE "inject")
         ELSE "decay"

\* A forced row that leaves isGameOver as it was: the test on the new grid is missing.
InjectWithoutCheck(prev, vals) ==
    [prev EXCEPT
        !.grid = shiftUp(prev.grid, vals, GridIds(prev.grid)),
        !.timeLeft = NextMaxTime(prev.level),
        !.maxTime = NextMaxTime(prev.level),
        !.combo = 0,
        !.selectedIds = << >>]

\* Time up: add a row
Inject(prev, vals) ==
    LET newGrid == shiftUp(prev.grid, vals, GridIds(prev.grid))
    IN  [prev EXCEPT
            !.grid = newGrid,
            !.timeLeft = NextMaxTime(prev.level),
            !.maxTime = NextMaxTime(prev.level),
            !.isGameOver = checkGameOver(newGrid),
            !.combo = 0,
            !.selectedIds = << >>]

\* The updater of the setInterval callback.
TickUpdate(prev, vals) ==
    CASE TickBranch(prev) = "none" -> prev
      [] TickBranch(prev) = "gameover" -> [prev EXCEPT !.isGameOver = TRUE]
      [] TickBranch(prev) = "inject" -> Inject(prev, vals)
      [] OTHER -> [prev EXCEPT !.timeLeft = prev.timeLeft - TICK]

\* One callback of the interval; its update is rendered later (Render).
Tick(rowValues) ==
    /\ TimerRunning
    /\ \E vals \in (IF TickBranch(gameState) = "inject" THEN rowValues ELSE {<< >>}) :
         gameState' = TickUpdate(gameState, vals)
    /\ last' = [op |-> "tick", branch |-> TickBranch(gameState), id |-> 0]
    /\ run' = IF run = NoRun \/ gameState.isGameOver THEN run
              ELSE [ticks |-> run.ticks + 1,
                    injections |-> run.injections +
                        (IF TickBranch(gameState) = "inject" THEN 1 ELSE 0)]
    /\ UNCHANGED <<isPaused, renderedGameOver, localStorage>>

\* React commits the render of the timer's update: the handlers and the effect
\* now see its isGameOver.
Render ==
    /\ gameState # NoGame
    /\ renderedGameOver # gameState.isGameOver
    /\ renderedGameOver' = gameState.isGameOver
    /\ last' = [op |-> "render", branch |-> "none", id |-> 0]
    /\ UNCHANGED <<gameState, isPaused, localStorage, run>>

\* ------------------------------------------------------------ the buttons

\* onClick={() => setIsPaused(!isPaused)}
TogglePause ==
    /\ gameState # NoGame
    /\ PlayerActs
    /\ isPaused' = ~isPaused
    /\ last' = [op |-> "pause", branch |-> IF isPaused THEN "off" ELSE "on", id |-> 0]
    /\ UNCHANGED <<gameState, renderedGameOver, localStorage, run>>

\* the pause overlay: onClick={() => setIsPaused(false)}
Resume ==
    /\ gameState # NoGame
    /\ PlayerActs
    /\ isPaused /\ ~renderedGameOver
    /\ isPaused' = FALSE
    /\ last' = [op |-> "pause", branch |-> "off", id |-> 0]
    /\ UNCHANGED <<gameState, renderedGameOver, localStorage, run>>

\* the game-over overlay: onClick={() => setGameState(null)}
ToMenu ==
    /\ gameState # NoGame
    /\ PlayerActs
    /\ renderedGameOver
    /\ gameState' = NoGame
    /\ renderedGameOver' = FALSE
    /\ last' = [op |-> "menu", branch |-> "none", id |-> 0]
    /\ run' = NoRun
    /\ UNCHANGED <<isPaused, localStorage>>

\* the mode buttons of the menu: initGame('classic'), initGame('time')
StartGame(modes, rowValues) ==
    /\ gameState = NoGame
    /\ SavedHighScore(localStorage) <= MaxSavedAtStart
    /\ \E mode \in modes :
       \E rows \in [1 .. INITIAL_ROWS -> rowValues] :
       \E target \in getTargetSum(1) :
          InitGame(mode, rows, target)

\* the restart buttons: initGame(gameState.mode)
Restart(rowValues) ==
    /\ gameState # NoGame
    /\ PlayerActs
    /\ SavedHighScore(localStorage) <= MaxSavedAtStart
    /\ \E rows \in [1 .. INITIAL_ROWS -> rowValues] :
       \E target \in getTargetSum(1) :
          InitGame(gameState.mode, rows, target)

\* ------------------------------------------------------- the specification

Init ==
    /\ gameState = NoGame
    /\ isPaused = FALSE
    /\ renderedGameOver = FALSE
    /\ localStorage \in SavedItems
    /\ last = [op |-> "boot", branch |-> "none", id |-> 0]
    /\ run = NoRun

MaxScore == IF gameState.mode = "classic" THEN MaxClassicScore ELSE MaxTimeScore

Next ==
    \/ StartGame({"classic", "time"}, RowValues)
    \/ Restart(RowValues)
    \/ Click(ClickCols, FALSE, RowValues, MaxScore)
    \/ Tick(RowValues)
    \/ Render
    \/ TogglePause
    \/ Resume
    \/ ToMenu

Spec == Init /\ [][Next]_vars

\* A long classic game: rows that add up to the target, every block of the bottom
\* row within reach (clicked from left to right), the score let grow past a level.
NextLong ==
    \/ StartGame({"classic"}, LongRowValues)
    \/ Restart(LongRowValues)
    \/ Click(GRID_COLS, TRUE, LongRowValues, MaxLongScore)
    \/ TogglePause
    \/ Resume

SpecLong == Init /\ [][NextLong]_vars

TypeOK ==
    /\ isPaused \in BOOLEAN
    /\ renderedGameOver \in BOOLEAN
    /\ gameState.score >= 0

\* A time-mode game left to its timer: never paused, never restarted, the player's
\* clicks make no exact match.  The interval fires as long as the effect keeps it.
NextTimer ==
    \/ StartGame({"time"}, RowValues)
    \/ Click(ClickCols, FALSE, RowValues, 0)
    \/ Tick(RowValues)
    \/ Render

SpecTimer == Init /\ [][NextTimer]_vars /\ WF_vars(Tick(RowValues))

\* ------------------------------------------- the functions on given grids

\* The columns a given grid is made of, row 0 first, 0 for an empty cell: empty, full,
\* floating blocks with one in row 0, a 4 on a 6, a gap under a block, one cell short
\* of full.
InputColumns ==
    { <<0, 0, 0, 0, 0, 0, 0, 0, 0, 0>>,
      <<1, 1, 1, 1, 1, 1, 1, 1, 1, 1>>,
      <<3, 0, 0, 0, 0, 2, 0, 0, 0, 0>>,
      <<0, 0, 0, 0, 0, 0, 0, 0, 4, 6>>,
      <<0, 0, 5, 0, 0, 0, 0, 0, 0, 4>>,
      <<0, 1, 1, 1, 1, 1, 1, 1, 1, 6>> }

\* The leftmost InputCols columns of a given grid are drawn from InputColumns.
InputCols == 3

\* The block a given grid holds at row r, column c has the id r * GRID_COLS + c + 1.
InputGrid(shapes) ==
    [r \in Rows |-> [c \in Cols |->
        IF c < Min(InputCols, GRID_COLS) /\ shapes[c + 1][r + 1] # 0
        THEN createBlock(r, c, shapes[c + 1][r + 1], r * GRID_COLS + c + 1)
        ELSE Null]]

\* The levels of the given time-mode states: the first, the next, and one at which
\* 10 - floor(level / 2) is below 5.
InputLevels == {1, 2, 13}

\* A given state: a classic game at level 1 with nothing scored, or a time-mode game
\* at one of InputLevels whose countdown has run out.
InputState(grid, mode, level) ==
    [NoGame EXCEPT
        !.grid = grid, !.targetSum = TARGET_BASE, !.mode = mode, !.level = level,
        !.score = (level - 1) * LEVEL_SCORE, !.highScore = (level - 1) * LEVEL_SCORE,
        !.timeLeft = IF mode = "time" THEN 0 - TICK ELSE Undefined,
        !.maxTime = IF mode = "time" THEN NextMaxTime(level) ELSE Undefined]

InitGrid ==
    /\ \E shapes \in [1 .. Min(InputCols, GRID_COLS) -> InputColumns] :
       \E mode \in {"classic", "time"} :
       \E level \in (IF mode = "time" THEN InputLevels ELSE {1}) :
          gameState = InputState(InputGrid(shapes), mode, level)
    /\ isPaused = FALSE
    /\ renderedGameOver = FALSE
    /\ localStorage = NoItem
    /\ last = [op |-> "input", branch |-> "none", id |-> 0]
    /\ run = NoRun

\* applyGravity(grid), and applyGravity of its result.
Gravity ==
    /\ gameState.mode = "classic"
    /\ last.op \in {"input", "applyGravity"}
    /\ last.branch # "twice"
    /\ gameState' = [gameState EXCEPT !.grid = applyGravity(gameState.grid)]
    /\ last' = [op |-> "applyGravity",
                branch |-> IF last.op = "input" THEN "once" ELSE "twice", id |-> 0]
    /\ UNCHANGED <<isPaused, renderedGameOver, localStorage, run>>

\* shiftUp(grid): the ids drawn for the new row are fresh, or one of them repeats the
\* id of a block of the bottom row.
ShiftUp ==
    /\ gameState.mode = "classic"
    /\ last.op \in {"input", "applyGravity"}
    /\ \E vals \in RowValues :
       \E used \in {GridIds(gameState.grid)} \cup
                   {(GridIds(gameState.grid) \cup (1 .. b.id)) \ {b.id} :
                        b \in {gameState.grid[GRID_ROWS - 1][c] : c \in Cols} \ {Null}} :
          gameState' = [gameState EXCEPT !.grid = shiftUp(gameState.grid, vals, used)]
    /\ last' = [op |-> "shiftUp", branch |-> "none", id |-> 0]
    /\ UNCHANGED <<isPaused, renderedGameOver, localStorage, run>>

\* handleBlockClick on a 4 or a 6 of the given grid, until a match is made.
ClickGiven ==
    /\ gameState.mode = "classic"
    /\ last.op \in {"input", "click"}
    /\ gameState.score = 0
    /\ \E r \in Rows, c \in Cols :
         /\ gameState.grid[r][c] # Null
         /\ gameState.grid[r][c].value \in {4, 6}
         /\ LET block == gameState.grid[r][c]
                exact == ~ClickIgnored /\
                         ClickBranch(gameState, Toggle(gameState.selectedIds, block.id)) = "exact"
            IN  \E vals \in (IF exact THEN RowValues ELSE {<< >>}) :
                   HandleBlockClick(block, vals, gameState.targetSum, 1)
    /\ UNCHANGED run

\* The callback of the interval on a given time-mode state.
TickGiven ==
    /\ last.op = "input"
    /\ Tick(RowValues)

NextGrid ==
    \/ Gravity
    \/ ShiftUp
    \/ ClickGiven
    \/ TickGiven

SpecGrid == InitGrid /\ [][NextGrid]_vars

\* ------------------------------------------------------------ properties

\* The handler of the step just taken changed the game state itself.
Played == last'.op \in {"click", "tick"}

\* The ids selected once the block clicked in this step is toggled.
ToggledIds ==
    IF last'.id \in SeqRange(gameState.selectedIds)
    THEN SeqRange(gameState.selectedIds) \ {last'.id}
    ELSE SeqRange(gameState.selectedIds) \cup {last'.id}

\* The values of the blocks of the grid that carry one of ids, added up.
RECURSIVE SumOfCells(_, _, _)
SumOfCells(grid, ids, cells) ==
    IF cells = {} THEN 0
    ELSE LET rc == CHOOSE x \in cells : TRUE
             b == grid[rc[1]][rc[2]]
         IN  (IF b # Null /\ b.id \in ids THEN b.value ELSE 0)
             + SumOfCells(grid, ids, cells \ {rc})

\* This step is a click that took effect, and the sum it selected.
ClickedSum == SumOfCells(gameState.grid, ToggledIds, Rows \X Cols)

ClickActed == last'.op = "click" /\ last'.branch # "ignored"

\* C1: once isGameOver is true, no block click and no timer tick changes any field
\* of the game state, and the state stops being game over only through initGame or
\* the return to the mode-select screen.
C1_GameOverIsTerminal ==
    [][gameState.isGameOver =>
          /\ Played => gameState' = gameState
          /\ ~gameState'.isGameOver => last'.op \in {"initGame", "menu"}]_vars

\* C2: while the game is paused, a block click and a timer tick leave the game
\* state as it is, so the state held when the pause began is the one play resumes from.
C2_PauseHoldsState ==
    [][(isPaused /\ gameState # NoGame) =>
          (last'.op \notin {"initGame", "menu"} => gameState' = gameState)]_vars

\* A click arrived during a pause of a running time-mode game and was ignored.
C2_Witness ==
    /\ isPaused
    /\ last.op = "click" /\ last.branch = "ignored"
    /\ gameState.mode = "time" /\ ~gameState.isGameOver
    /\ gameState.timeLeft = 0

\* C3: a click that makes the selected values add up to targetSum adds
\* targetSum * (number of selected blocks) * (combo + 1) to the score, raises combo
\* by one and empties selectedIds.
C3_ExactMatchScores ==
    [][(ClickActed /\ ClickedSum = gameState.targetSum) =>
          /\ gameState'.score =
                gameState.score
                + gameState.targetSum * Cardinality(ToggledIds) * (gameState.combo + 1)
          /\ gameState'.combo = gameState.combo + 1
          /\ gameState'.selectedIds = << >>]_vars

\* Target 10, blocks 4 and 6, combo 0: 20 points.
C3_Witness ==
    /\ last.op = "click" /\ last.branch = "exact"
    /\ gameState.score = 20 /\ gameState.combo = 1
    /\ FindBlock(gameState.grid, last.id) = Null

\* C4: a click that makes the selected values exceed targetSum empties selectedIds
\* and sets combo to 0, and changes no other field.
C4_ExceededResets ==
    [][(ClickActed /\ ClickedSum > gameState.targetSum) =>
          gameState' = [gameState EXCEPT !.selectedIds = << >>, !.combo = 0]]_vars

\* The sum was exceeded in a game whose score stands at 20.
C4_Witness ==
    /\ last.op = "click" /\ last.branch = "exceeded"
    /\ gameState.score = 20 /\ gameState.combo = 0
    /\ gameState.selectedIds = << >>

\* C5: a click that leaves the selected values below targetSum changes selectedIds
\* only: the clicked id is added if it was absent and removed if it was present.
C5_BelowTogglesOnly ==
    [][(ClickActed /\ ClickedSum < gameState.targetSum) =>
          /\ SeqRange(gameState'.selectedIds) = ToggledIds
          /\ Len(gameState'.selectedIds) = Cardinality(ToggledIds)
          /\ gameState' = [gameState EXCEPT !.selectedIds = gameState'.selectedIds]]_vars

\* A block was deselected while another stayed selected, the combo standing at 1.
C5_Witness ==
    /\ last.op = "click" /\ last.branch = "below"
    /\ last.id \notin SeqRange(gameState.selectedIds)
    /\ gameState.selectedIds # << >>
    /\ gameState.combo = 1

\* C6: in time mode, 100 ticks after initGame('time') with no click in between have
\* produced exactly one forced row, and the tick that forces a row resets combo.
C6_HundredTicksOneInjection ==
    /\ run.ticks = 100 => run.injections = 1
    /\ (last.op = "tick" /\ last.branch = "inject") => gameState.combo = 0

\* C7: initGame leaves rows 6..9 full (24 blocks), rows 0..5 empty, score 0, level 1,
\* combo 0, nothing selected, no game over, the pause flag cleared, and timeLeft =
\* maxTime = 10 in time mode, both absent in classic mode.
C7_InitGamePostcondition ==
    last.op = "initGame" =>
        /\ \A r \in 6 .. 9 : \A c \in Cols : gameState.grid[r][c] # Null
        /\ \A r \in 0 .. 5 : \A c \in Cols : gameState.grid[r][c] = Null
        /\ Cardinality(GridIds(gameState.grid)) = 24
        /\ gameState.score = 0 /\ gameState.level = 1 /\ gameState.combo = 0
        /\ gameState.selectedIds = << >>
        /\ ~gameState.isGameOver
        /\ ~isPaused
        /\ gameState.mode = "time" =>
              gameState.timeLeft = 10 * TENTHS /\ gameState.maxTime = 10 * TENTHS
        /\ gameState.mode = "classic" =>
              gameState.timeLeft = Undefined /\ gameState.maxTime = Undefined

\* A time-mode game restarted while it was paused.
C7_Witness ==
    /\ last.op = "initGame" /\ last.branch = "paused"
    /\ gameState.mode = "time"

\* C8: highScore >= score in every state; an exact match leaves highScore at the
\* larger of the previous highScore and the new score; highScore never decreases
\* within a game, and neither does the saved value that initGame reloads it from.
C8_HighScoreDominates ==
    /\ [](gameState.highScore >= gameState.score)
    /\ [](gameState # NoGame => SavedHighScore(localStorage) = gameState.highScore)
    /\ [][/\ (ClickActed /\ ClickedSum = gameState.targetSum) =>
                gameState'.highScore = Max(gameState.highScore, gameState'.score)
          /\ (gameState # NoGame /\ gameState' # NoGame) =>
                gameState'.highScore >= gameState.highScore
          /\ SavedHighScore(localStorage') >= SavedHighScore(localStorage)]_vars

\* A new game that starts with a high score two matches of an earlier game made.
C8_Witness ==
    /\ last.op = "initGame"
    /\ gameState.highScore = 40 /\ localStorage = <<4, 0>>

\* C9: level = floor(score / 1000) + 1 in every state of a game, and level does not
\* decrease between two initGame calls.
C9_LevelFollowsScore ==
    /\ [](gameState # NoGame => gameState.level = (gameState.score \div 1000) + 1)
    /\ [][last'.op \notin {"initGame", "menu"} => gameState'.level >= gameState.level]_vars

\* A game that has reached level 2.
C9_Witness ==
    /\ gameState.level = 2
    /\ gameState.score >= 1000
    /\ last.op = "click" /\ last.branch = "exact"

\* C10: every id of selectedIds is the id of a block on the grid, and none occurs twice.
C10_SelectionOnGrid ==
    /\ \A i \in 1 .. Len(gameState.selectedIds) :
          gameState.selectedIds[i] \in GridIds(gameState.grid)
    /\ \A i, j \in 1 .. Len(gameState.selectedIds) :
          gameState.selectedIds[i] = gameState.selectedIds[j] => i = j

\* Two blocks are selected in a time-mode game after a match and a forced row.
C10_Witness ==
    /\ Len(gameState.selectedIds) = 2
    /\ gameState.mode = "time" /\ gameState.score = 20
    /\ gameState.grid[5][0] # Null

\* The occupied cells of a grid, and where the block with a given id is stored.
Cells(grid) == {rc \in Rows \X Cols : grid[rc[1]][rc[2]] # Null}

CellOf(grid, id) == CHOOSE rc \in Cells(grid) : grid[rc[1]][rc[2]].id = id

IdValues(grid) == {<<grid[rc[1]][rc[2]].id, grid[rc[1]][rc[2]].value>> : rc \in Cells(grid)}

\* C12: applyGravity conserves the blocks (ids and values), keeps each block in its
\* column and the blocks of a column in their order, packs each column onto the
\* bottom without a gap, and sets each block's row field to the row it is stored in.
C12_GravityConserves ==
    [][last'.op = "applyGravity" =>
          LET g == gameState.grid
              h == gameState'.grid
          IN  /\ IdValues(h) = IdValues(g)
              /\ Cardinality(Cells(h)) = Cardinality(Cells(g))
              /\ Cardinality(GridIds(h)) = Cardinality(Cells(h))
              /\ \A rc \in Cells(g) :
                    CellOf(h, g[rc[1]][rc[2]].id)[2] = rc[2]
              /\ \A a, b \in Cells(g) :
                    (a[2] = b[2] /\ a[1] < b[1]) =>
                        CellOf(h, g[a[1]][a[2]].id)[1] < CellOf(h, g[b[1]][b[2]].id)[1]
              /\ \A rc \in Cells(h) :
                    \A r \in Rows : r > rc[1] => h[r][rc[2]] # Null
              /\ \A rc \in Cells(h) :
                    h[rc[1]][rc[2]].row = rc[1] /\ h[rc[1]][rc[2]].col = rc[2]]_vars

\* Gravity has been applied once and a block has come down from the row it was given in.
C12_Witness ==
    /\ last.op = "applyGravity" /\ last.branch = "once"
    /\ \E rc \in Cells(gameState.grid) :
          (gameState.grid[rc[1]][rc[2]].id - 1) \div GRID_COLS < rc[1]
    /\ checkGameOver(gameState.grid)

\* C13: applyGravity is idempotent: applied to its own result it changes no cell.
C13_GravityIdempotent ==
    [][(last.op = "applyGravity" /\ last'.op = "applyGravity") =>
          gameState'.grid = gameState.grid]_vars

\* Gravity has been applied a second time to a grid whose blocks the first moved.
C13_Witness ==
    /\ last.op = "applyGravity" /\ last.branch = "twice"
    /\ \E rc \in Cells(gameState.grid) :
          (gameState.grid[rc[1]][rc[2]].id - 1) \div GRID_COLS < rc[1] - 1

\* A grid with the blocks that carry one of ids taken out.
Removed(grid, ids) ==
    [r \in Rows |-> [c \in Cols |->
        IF grid[r][c] # Null /\ grid[r][c].id \in ids THEN Null ELSE grid[r][c]]]

\* C11: in time mode a block click never adds a block to the grid, and an exact match
\* leaves applyGravity of the grid without the selected blocks (no row is shifted in)
\* and isGameOver false.
C11_ClickAddsNoRowInTimeMode ==
    [][(gameState.mode = "time" /\ ClickActed) =>
          /\ Cardinality(Cells(gameState'.grid)) <= Cardinality(Cells(gameState.grid))
          /\ ClickedSum = gameState.targetSum =>
                /\ gameState'.grid = applyGravity(Removed(gameState.grid, ToggledIds))
                /\ ~gameState'.isGameOver]_vars

\* A match in time mode after a forced row: two blocks fewer, five rows standing.
C11_Witness ==
    /\ gameState.mode = "time"
    /\ last.op = "click" /\ last.branch = "exact"
    /\ Cardinality(Cells(gameState.grid)) = 28
    /\ ~gameState.isGameOver

\* What shiftUp does with the blocks of its argument: none of row 0 is kept, each of
\* rows 1..9 is one row up in its column with its id and value, its row field set.
ShiftedUp(g, h) ==
    /\ \A c \in Cols :
          g[0][c] # Null => g[0][c].id \notin GridIds(h)
    /\ \A r \in 1 .. 9 : \A c \in Cols :
          g[r][c] # Null =>
             /\ h[r - 1][c] # Null
             /\ h[r - 1][c].id = g[r][c].id
             /\ h[r - 1][c].value = g[r][c].value
             /\ h[r - 1][c].row = r - 1

\* C14: shiftUp(g) keeps no block of row 0 of g, holds every block of rows 1..9 one
\* row up in its column with its id and value, and has in row 9 six new blocks whose
\* ids do not occur in g.
C14_ShiftUpMovesRows ==
    [][last'.op = "shiftUp" =>
          LET g == gameState.grid
              h == gameState'.grid
          IN  /\ ShiftedUp(g, h)
              /\ \A c \in Cols : h[9][c] # Null /\ h[9][c].id \notin GridIds(g)
              /\ Cardinality({h[9][c].id : c \in Cols}) = 6]_vars

\* The same without the statement about the ids of the new row.
C14_ShiftUpMovesRowsAnyIds ==
    [][last'.op = "shiftUp" =>
          LET g == gameState.grid
              h == gameState'.grid
          IN  /\ \A c \in Cols : g[0][c] # Null => h[0][c] # g[0][c]
              /\ \A r \in 1 .. 9 : \A c \in Cols :
                    h[r - 1][c] = (IF g[r][c] # Null
                                   THEN [g[r][c] EXCEPT !.row = r - 1] ELSE Null)
              /\ \A c \in Cols : h[9][c] # Null /\ h[9][c].row = 9 /\ h[9][c].col = c]_vars

\* C15: in classic mode, after an exact match: if the grid without the selected
\* blocks, gravity applied, has a block in row 0, the game is over with that grid and
\* no row is added; otherwise the grid is shiftUp of it (the matched blocks fewer,
\* six more) and isGameOver tells whether row 0 of the shifted grid holds a block.
C15_ClassicMatchBranches ==
    [][(gameState.mode = "classic" /\ ClickActed /\ ClickedSum = gameState.targetSum) =>
          LET g == applyGravity(Removed(gameState.grid, ToggledIds))
              h == gameState'.grid
          IN  IF \E c \in Cols : g[0][c] # Null
              THEN h = g /\ gameState'.isGameOver
              ELSE /\ \A r \in 1 .. 9 : \A c \in Cols :
                         h[r - 1][c] = (IF g[r][c] # Null
                                        THEN [g[r][c] EXCEPT !.row = r - 1] ELSE Null)
                   /\ \A c \in Cols : h[9][c] # Null
                   /\ Cardinality(Cells(h)) =
                         Cardinality(Cells(gameState.grid)) - Cardinality(ToggledIds) + 6
                   /\ gameState'.isGameOver <=> (\E c \in Cols : h[0][c] # Null)]_vars

\* A match on a grid with a full column: game over, and no row was added (the bottom
\* row has an empty cell).
C15_Witness ==
    /\ gameState.mode = "classic"
    /\ last.op = "click" /\ last.branch = "exact"
    /\ gameState.isGameOver
    /\ \E c \in Cols : gameState.grid[9][c] = Null

\* C16: a tick at expiry, in time mode: with a block in row 0 it sets isGameOver and
\* changes nothing else; otherwise the grid becomes shiftUp of the grid, isGameOver
\* tells whether row 0 of the shifted grid holds a block, timeLeft = maxTime =
\* max(5, 10 - floor(level / 2)), combo = 0, selectedIds = [], and score, highScore,
\* level and targetSum are kept.
C16_ExpiryTick ==
    [][(last'.op = "tick" /\ gameState.timeLeft # Undefined
          /\ TimeLeftLeqZero(gameState.timeLeft)) =>
          LET g == gameState.grid
              h == gameState'.grid
              reset == (IF 10 - (gameState.level \div 2) > 5
                        THEN 10 - (gameState.level \div 2) ELSE 5) * TENTHS
          IN  IF \E c \in Cols : g[0][c] # Null
              THEN gameState' = [gameState EXCEPT !.isGameOver = TRUE]
              ELSE /\ \A r \in 1 .. 9 : \A c \in Cols :
                         h[r - 1][c] = (IF g[r][c] # Null
                                        THEN [g[r][c] EXCEPT !.row = r - 1] ELSE Null)
                   /\ \A c \in Cols : h[9][c] # Null
                   /\ gameState'.isGameOver <=> (\E c \in Cols : h[0][c] # Null)
                   /\ gameState'.timeLeft = reset /\ gameState'.maxTime = reset
                   /\ gameState'.combo = 0 /\ gameState'.selectedIds = << >>
                   /\ gameState'.score = gameState.score
                   /\ gameState'.highScore = gameState.highScore
                   /\ gameState'.level = gameState.level
                   /\ gameState'.targetSum = gameState.targetSum
                   /\ gameState'.mode = gameState.mode]_vars

\* An expiry at level 13 forced a row that reached row 0: the countdown restarts at 5.
C16_Witness ==
    /\ last.op = "tick" /\ last.branch = "inject"
    /\ gameState.level = 13 /\ gameState.timeLeft = 5 * TENTHS
    /\ gameState.isGameOver

\* C17: after an exact match the new targetSum is drawn for the level held before the
\* match, so it lies in 10 .. 9 + min(previous level, 10), while the new level is
\* floor(new score / 1000) + 1; targetSum is in 10..19 in every state of a game, and
\* is 10 after initGame and after a match made at level 1.
C17_TargetFromPreviousLevel ==
    /\ [](gameState # NoGame => gameState.targetSum \in 10 .. 19)
    /\ [](last.op = "initGame" => gameState.targetSum = 10)
    /\ [][(ClickActed /\ ClickedSum = gameState.targetSum) =>
             /\ gameState'.targetSum \in
                   10 .. (9 + (IF gameState.level < 10 THEN gameState.level ELSE 10))
             /\ gameState'.level = (gameState'.score \div 1000) + 1
             /\ gameState.level = 1 => gameState'.targetSum = 10]_vars

\* The match that takes the score from 900 to 1260: the level is 2, the target still 10.
C17_Witness ==
    /\ last.op = "click" /\ last.branch = "exact"
    /\ gameState.score = 1260 /\ gameState.combo = 6
    /\ gameState.level = 2 /\ gameState.targetSum = 10

C19_SelectionBelowTarget ==
    gameState # NoGame =>
        SumOfCells(gameState.grid, SeqRange(gameState.selectedIds), Rows \X Cols)
            < gameState.targetSum

\* Two blocks that add up to 5 are selected in a time-mode game, after a forced row.
C19_Witness ==
    /\ Len(gameState.selectedIds) = 2
    /\ SumOfCells(gameState.grid, SeqRange(gameState.selectedIds), Rows \X Cols) = 5
    /\ gameState.mode = "time"
    /\ gameState.grid[5][0] # Null

\* The ids matched by the click of this step, if it made an exact match.
MatchedIds ==
    IF ClickActed /\ ClickedSum = gameState.targetSum THEN ToggledIds ELSE {}

\* C20: a row is only added to a grid whose row 0 is empty, so a click or a tick takes
\* no block off the grid but the blocks of an exact match; and in classic mode an
\* exact match made in a state that is not game over never finds the grid without
\* the matched blocks, gravity applied, with a block in row 0.
C20_NoBlockDiscarded ==
    [][(Played /\ gameState'.grid # gameState.grid) =>
          \A matched \in {MatchedIds} :
          \A kept \in {{p \in IdValues(gameState.grid) : p[1] \notin matched}} :
          \A added \in {Cardinality(Cells(gameState'.grid)) - Cardinality(kept)} :
          \A top \in {applyGravity(Removed(gameState.grid, matched))[0]} :
             /\ kept \subseteq IdValues(gameState'.grid)
             /\ added \in {0, 6}
             /\ added = 6 => \A c \in Cols : top[c] = Null
             /\ (gameState.mode = "classic" /\ matched # {} /\ ~gameState.isGameOver) =>
                   \A c \in Cols : top[c] = Null]_vars

\* The forced row that ends a time-mode game: the grid is full, all 60 blocks on it.
C20_Witness ==
    /\ last.op = "tick" /\ last.branch = "inject"
    /\ gameState.isGameOver
    /\ Cardinality(Cells(gameState.grid)) = 60
    /\ Cardinality(GridIds(gameState.grid)) = 60

\* C21: a time-mode game that is not paused, whose timer keeps firing and in which no
\* exact match is made, eventually is game over; started with 4 rows, it becomes game
\* over at the 6th forced row (the grid then holds 24 + 36 blocks) and not earlier.
C21_TimerEndsTheGame ==
    /\ (gameState # NoGame) ~> gameState.isGameOver
    /\ [](gameState.isGameOver => Cardinality(Cells(gameState.grid)) = 24 + (6 * 6))
    /\ [](run # NoRun => (gameState.isGameOver <=> run.injections = 6))
    /\ [][(~gameState.isGameOver /\ gameState'.isGameOver) =>
             (last'.op = "tick" /\ last'.branch = "inject")]_vars

\* The sixth forced row of a game without a click: game over.
C21_Witness ==
    /\ gameState.isGameOver
    /\ last.op = "tick" /\ last.branch = "inject"
    /\ run.injections = 6
    /\ gameState.mode = "time"

====
